---- MODULE Spec2Model ----
(***************************************************************************)
(* Job lifecycle and polling of the TestOps dashboard client.              *)
(*                                                                         *)
(* The model follows the Testcases page (TestcasesPage.tsx): the page      *)
(* keeps the job list `allJobs` in React state and mirrors it to           *)
(* localStorage; every list item of the active tab (JobItem) owns one      *)
(* useJobWatcher, which drives a usePolling interval timer.                *)
(*                                                                         *)
(* React is modelled by what the hooks rely on: a state setter changes the *)
(* pending state at once, a later commit (Render) re-runs the components,  *)
(* creates the closures of that render and runs the effects.  A function   *)
(* created in a render sees the state of that render only.                 *)
(***************************************************************************)
EXTENDS Integers, Sequences, FiniteSets, TLC

\* ---------------------------------------------------------------- bounds
JobIds == {"j1", "j2"}
MaxFetches == 3
\* fetches of one page visit (see SpecVisit)
VisitFetches == 4
\* Scenario D: the rejected fetches; then the answered one and one more
FailingTicks == 3
\* runs of the polling effect and callback calls of one usePolling consumer
MaxActivations == 2
MaxInvocations == 3
\* longest array and largest count field of a result payload
MaxItems == 2
ScenarioFetches == FailingTicks + 2
\* the job ids submitted and watched under Spec
Watched == {"j1"}

\* ------------------------------------------------------------- constants
NULL == "null"
NonTerminal == {"pending", "processing"}
Terminal == {"completed", "failed", "cancelled"}
JobStatus == NonTerminal \cup Terminal
Tabs == {"ui", "api"}
ErrorMessages == {"Network Error", ""}
\* usePolling(poll, 2000, ...) and axios.create({ timeout: 30000 })
PollInterval == 2000
RequestTimeout == 30000
\* props of a consumer of usePolling: two callbacks, two intervals
Callbacks == {"cbA", "cbB"}
Intervals == {PollInterval, 2 * PollInterval}
Outcomes == {"resolve", "reject"}

VARIABLES
  backend,        \* job id -> status on the server ("none": not submitted)
  storage,        \* the localStorage entry "testops_jobs"
  pageMounted,    \* TestcasesPage is mounted
  allJobs,        \* pending value of the page state allJobs
  activeTab,      \* pending value of the page state activeTab
  dirty,          \* a state setter was called since the last commit
  mounted,        \* job id -> a JobItem for it is mounted
  job,            \* job id -> useJobWatcher state `job` (status of payload)
  error,          \* job id -> useJobWatcher state `error`
  savedCallback,  \* job id -> usePolling savedCallback.current (a closure)
  isActive,       \* job id -> the polling effect is active (timer alive)
  inflight,       \* fetches issued and not yet settled
  nIssued,        \* job id -> number of fetches issued so far
  doneCalls,      \* job id -> number of onDone invocations (history)
  termSeen,       \* job id -> this watcher got a terminal payload (history)
  latestOk,       \* job id -> latest-issued succeeded fetch (history)
  lastEvent,      \* the step that led here (history)
  otherStorage,   \* the localStorage entries of the other pages, by key
  poller,         \* a consumer of usePolling on its own (see PollerInit)
  watcher,        \* a consumer of useJobWatcher on its own (see WatcherInit)
  counter         \* a completion callback that counts results (NoCounter)

pagevars == <<backend, storage, pageMounted, allJobs, activeTab, dirty,
              mounted, job, error, savedCallback, isActive, inflight,
              nIssued, doneCalls, termSeen, latestOk, lastEvent,
              otherStorage>>
hookvars == <<poller, watcher, counter>>
vars == <<pagevars, hookvars>>

\* ------------------------------------------------------------ list store
\* A summary carries the fields the watcher protocol reads or writes and
\* created_at; title, message and testcases ride along and decide nothing.
\* `new Date()`: the jobs are stamped in the order the server accepted them
Now == Cardinality({j \in JobIds : backend[j] # "none"}) + 1

NewJobDone(j, t) ==
  [job_id |-> j, type |-> t, status |-> "completed", progress |-> 100,
   created_at |-> Now]
NewJob(j, t) ==
  [job_id |-> j, type |-> t, status |-> "pending", progress |-> 10,
   created_at |-> Now]

PrependTwice(newJob, prev) == <<newJob, newJob>> \o prev
PrependAtTail(newJob, prev) == prev \o <<newJob>>
Prepend(newJob, prev) == <<newJob>> \o prev

\* `{ ...job, ...updates }`
MergeKeepsJob(s, updates) ==
  [k \in DOMAIN s \cup DOMAIN updates |->
     IF k \in DOMAIN s THEN s[k] ELSE updates[k]]
MergeUpdates(s, updates) ==
  [k \in DOMAIN s \cup DOMAIN updates |->
     IF k \in DOMAIN updates THEN updates[k] ELSE s[k]]

updateJobStatusUpsert(prev, jobId, updates) ==
  IF \E i \in 1..Len(prev) : prev[i].job_id = jobId
    THEN [i \in 1..Len(prev) |->
            IF prev[i].job_id = jobId
              THEN MergeUpdates(prev[i], updates) ELSE prev[i]]
    ELSE <<MergeUpdates([job_id |-> jobId, type |-> "ui"], updates)>> \o prev
updateJobStatusAll(prev, jobId, updates) ==
  [i \in 1..Len(prev) |-> MergeUpdates(prev[i], updates)]
updateJobStatus(prev, jobId, updates) ==
  [i \in 1..Len(prev) |->
     IF prev[i].job_id = jobId THEN MergeUpdates(prev[i], updates) ELSE prev[i]]

removeJobHead(prev, jobId) == IF prev = <<>> THEN prev ELSE Tail(prev)
removeJob(prev, jobId) == SelectSeq(prev, LAMBDA s : s.job_id # jobId)

filteredJobs(jobs, tab) == SelectSeq(jobs, LAMBDA s : s.type = tab)

Ids(jobs) == {jobs[i].job_id : i \in 1..Len(jobs)}

Summary(jobs, j) == jobs[CHOOSE i \in 1..Len(jobs) : jobs[i].job_id = j]

\* --------------------------------------------------------- localStorage
\* the pages and the key each one reads and writes; `storage` is the entry
\* of TestcasesPage, which lists its ui and its api jobs together
Pages == {"testcases", "autotests", "standards", "optimization"}
PageKeyShared(p) == "testops_jobs"
PageKey(p) ==
  CASE p = "testcases" -> "testops_jobs"
    [] p = "autotests" -> "testops_autotest_jobs"
    [] p = "standards" -> "testops_standards_jobs"
    [] p = "optimization" -> "testops_optimization_jobs"
OtherPages == Pages \ {"testcases"}
OtherKeys == {"testops_autotest_jobs", "testops_standards_jobs",
              "testops_optimization_jobs"}

Absent == [kind |-> "absent", items |-> <<>>]
Unparsable == [kind |-> "unparsable", items |-> <<>>]
\* text that is JSON but not an array: `null`, a number, an object
NonArrayKinds == {"null", "number", "object"}
NonArrayJSON(kind) == [kind |-> kind, items |-> <<>>]
\* what JSON.parse returns for such a text: a value that is no sequence
NotAnArray(kind) == [i \in {0} |-> kind]
IsArray(v) == DOMAIN v = 1..Cardinality(DOMAIN v)

\* JSON text of a summary: one member <<key, text>> per field, a number as
\* its decimal digits, a string between quotes
NumberFields == {"progress", "created_at"}
Strings == JobIds \cup Tabs \cup JobStatus
Digit(d) == <<"0", "1", "2", "3", "4", "5", "6", "7", "8", "9">>[d + 1]
RECURSIVE NumberText(_)
NumberText(n) ==
  IF n < 10 THEN Digit(n) ELSE NumberText(n \div 10) \o Digit(n % 10)
Quote(str) == "\"" \o str \o "\""
ObjectText(s) ==
  {<<k, IF k \in NumberFields THEN NumberText(s[k]) ELSE Quote(s[k])>> :
     k \in DOMAIN s}

\* a stringify that writes the list back to front
JSONstringifyReversed(jobs) ==
  [kind |-> "array",
   items |-> [i \in 1..Len(jobs) |-> ObjectText(jobs[Len(jobs) + 1 - i])]]
\* JSON.stringify(allJobs): the elements in the order of the list
JSONstringify(jobs) ==
  [kind |-> "array", items |-> [i \in 1..Len(jobs) |-> ObjectText(jobs[i])]]

\* JSON.parse of one element
TextNumber(text) == CHOOSE n \in 0..100 : NumberText(n) = text
Unquote(text) == CHOOSE str \in Strings : Quote(str) = text
ObjectOf(members) ==
  [k \in {m[1] : m \in members} |->
     LET text == (CHOOSE m \in members : m[1] = k)[2]
     IN IF k \in NumberFields THEN TextNumber(text) ELSE Unquote(text)]

\* JSON.parse throws a SyntaxError on text that is not JSON
ParseThrows(st) == st.kind = "unparsable"

\* `try { setAllJobs(JSON.parse(savedJobs)) } catch (e) { console.error }`
ParseInsideTry == TRUE

\* a load effect without try/catch
LoadEscapesUncaught(st) == ParseThrows(st)
\* an exception leaves the load effect: only if the parse were outside
\* the try block
LoadEscapes(st) == ParseThrows(st) /\ ~ParseInsideTry

\* the load effect: getItem, `if (savedJobs)`, try JSON.parse, catch
LoadCallsSet(st) == st.kind \in {"array"} \cup NonArrayKinds
LoadedJobs(st) ==
  IF st.kind = "array"
    THEN [i \in 1..Len(st.items) |-> ObjectOf(st.items[i])]
  ELSE IF st.kind \in NonArrayKinds THEN NotAnArray(st.kind)
  ELSE <<>>

\* ------------------------------------------------------- useJobWatcher
\* the jobId argument a JobItem passes to its watcher
JobIdArg(s) ==
  IF s.status # "completed" /\ s.status # "failed" THEN s.job_id ELSE NULL

\* the third argument of usePolling in useJobWatcher
PollingEnabled(jobId, jb) ==
  jobId # NULL /\ (jb = NULL \/ (jb = "processing" \/ jb = "pending"))

\* `["completed", "failed"].includes(result.status) && onDone`
CallsOnDone(result) == result \in {"completed", "failed"}

\* the message passed on as it is, without the fallback text
ErrorTextNoFallback(message) == message

\* `error.message || "Failed to fetch job"`
ErrorText(message) == IF message = "" THEN "Failed to fetch job" ELSE message

\* the closure `poll` of one render: the jobId and, through onDone, the
\* liveJob of that render
Closure(jobId, liveJob) == [jobId |-> jobId, liveJob |-> liveJob]
NoClosure == Closure(NULL, NULL)

\* poll() up to its await: `if (!jobId) return`, else fetcher(jobId)
poll(cb, seq) ==
  IF cb.jobId = NULL THEN {}
  ELSE {[id |-> cb.jobId, seq |-> seq, payload |-> backend[cb.jobId],
         liveJob |-> cb.liveJob, inst |-> TRUE]}

\* the onDone of a JobItem, run with the liveJob its closure holds
onDoneUnguarded(prev, jobId, liveJob) ==
  updateJobStatus(prev, jobId, [status |-> liveJob, progress |-> 100])
onDoneAll(prev, jobId, liveJob) ==
  IF liveJob # NULL
    THEN updateJobStatusAll(prev, jobId,
                            [status |-> liveJob, progress |-> 100])
    ELSE prev
onDone(prev, jobId, liveJob) ==
  IF liveJob # NULL
    THEN updateJobStatus(prev, jobId, [status |-> liveJob, progress |-> 100])
    ELSE prev

\* ------------------------------------------------- usePolling, on its own
\* One consumer of usePolling(callback, interval, enabled) whose props
\* change from render to render.  The hook's state is the record `poller`:
\*   mounted, callback, interval, enabled   the consumer and its last props
\*   savedCallback                          savedCallback.current
\*   act                                    runs of the polling effect so far
\*   isActive, timers                       activations whose `isActive` is
\*                                          true / whose interval is alive
\*   queued                                 timer callbacks due and not run
\*   running                                callback() calls not yet settled
\*   invoked, logged, unhandled, last       history
NoPollerEvent == [type |-> "none", act |-> 0, n |-> 0]

PollerInit ==
  [mounted |-> FALSE, callback |-> NULL, interval |-> 0, enabled |-> FALSE,
   savedCallback |-> NULL, act |-> 0, isActive |-> {}, timers |-> {},
   queued |-> {}, running |-> {}, invoked |-> 0, logged |-> {},
   unhandled |-> 0, last |-> NoPollerEvent]

\* a cleanup that sets the flag and leaves the interval
cleanupKeepsTimer(p) == [p EXCEPT !.isActive = @ \ {p.act}]

\* the cleanup of the polling effect: `isActive = false; clearInterval(id)`
cleanup(p) ==
  [p EXCEPT !.isActive = @ \ {p.act}, !.timers = @ \ {p.act}]

\* a tick that does not look at isActive
tickOfUnguarded(p, a) ==
  [p EXCEPT !.running = @ \cup {[act |-> a, callback |-> p.savedCallback,
                                 n |-> p.invoked + 1]},
            !.invoked = @ + 1]

\* tick() of activation a up to its await: `if (!isActive) return`, then
\* savedCallback.current()
tickOf(p, a) ==
  IF a \notin p.isActive THEN p
  ELSE [p EXCEPT !.running = @ \cup {[act |-> a, callback |-> p.savedCallback,
                                      n |-> p.invoked + 1]},
                 !.invoked = @ + 1]

\* a tick without try/catch: the rejection leaves the tick
settleUncaught(p, r, outcome) ==
  [p EXCEPT !.running = @ \ {r},
            !.unhandled = IF outcome = "reject" THEN @ + 1 ELSE @]

\* the rest of tick() once the callback's promise settles: a rejection is
\* caught and logged with console.error
settle(p, r, outcome) ==
  [p EXCEPT !.running = @ \ {r},
            !.logged = IF outcome = "reject"
                         THEN @ \cup {[act |-> r.act, n |-> r.n]} ELSE @]

\* a body that starts the interval without calling tick()
activateNoTick(p) ==
  IF ~p.enabled THEN p
  ELSE [p EXCEPT !.act = @ + 1,
                 !.isActive = @ \cup {p.act + 1},
                 !.timers = @ \cup {p.act + 1}]

\* the body of the polling effect: `if (!enabled) return`, a new isActive
\* flag, setInterval(tick, interval), tick()
activate(p) ==
  IF ~p.enabled THEN p
  ELSE tickOf([p EXCEPT !.act = @ + 1,
                        !.isActive = @ \cup {p.act + 1},
                        !.timers = @ \cup {p.act + 1}], p.act + 1)

\* one render of the consumer with the props cb, iv, en and the effects of
\* its commit: `savedCallback.current = callback` if the callback changed;
\* if interval or enabled changed, the cleanup of the previous run (there
\* is one if that run was enabled) and then the body
usePollingCallbackDep(p, cb, iv, en) ==
  LET first == ~p.mounted
      rerun == first \/ cb # p.callback \/ iv # p.interval \/ en # p.enabled
      p1 == [p EXCEPT !.mounted = TRUE, !.callback = cb, !.interval = iv,
                      !.enabled = en,
                      !.savedCallback =
                         IF first \/ cb # p.callback THEN cb ELSE @]
      p2 == IF ~first /\ rerun /\ p.enabled THEN cleanup(p1) ELSE p1
  IN IF rerun THEN activate(p2) ELSE p2
usePolling(p, cb, iv, en) ==
  LET first == ~p.mounted
      rerun == first \/ iv # p.interval \/ en # p.enabled
      p1 == [p EXCEPT !.mounted = TRUE, !.callback = cb, !.interval = iv,
                      !.enabled = en,
                      !.savedCallback =
                         IF first \/ cb # p.callback THEN cb ELSE @]
      p2 == IF ~first /\ rerun /\ p.enabled THEN cleanup(p1) ELSE p1
  IN IF rerun THEN activate(p2) ELSE p2

\* the consumer unmounts: the cleanup of the last run
unmountPolling(p) ==
  [(IF p.enabled THEN cleanup(p) ELSE p) EXCEPT !.mounted = FALSE]

\* ---------------------------------------------- useJobWatcher, on its own
\* One consumer of useJobWatcher(jobId, fetcher, onDone) whose jobId
\* argument changes from render to render; fetcher and onDone are stable.
\*   jobId           the argument of the last render
\*   job, error      the pending values of the two states
\*   dirty           a setter was called since the last commit
\*   returned        what the last render returned
\*   doneCalls       history
\* a payload is a record; NoJob stands for the value null of `job`
NoJob == [job_id |-> NULL, status |-> NULL]

WatcherInit ==
  [mounted |-> FALSE, jobId |-> NULL, job |-> NoJob, error |-> NULL,
   dirty |-> FALSE, returned |-> [job |-> NoJob, error |-> NULL],
   doneCalls |-> 0]

\* the `poll` of a render: useCallback(..., [fetcher, jobId, onDone])
PollOf(jobId) == Closure(jobId, NULL)

\* one render with the argument id: the states are read as they are and
\* usePolling(poll, 2000, Boolean(jobId) && (!job || ...)) is called
useJobWatcher(w, id) ==
  [w EXCEPT !.mounted = TRUE, !.jobId = id, !.dirty = FALSE,
            !.returned = [job |-> w.job, error |-> w.error]]

\* ---------------------------------------------------- the result counts
\* The payload of a finished standards or optimization job, as far as the
\* completion callback reads it.  A field is None when the payload lacks it
\* (undefined) and Some(v) when it has the value v:
\*   count    violations_count / recommendations_count
\*   nested   result.violations / result.recommendations (None also when
\*            `result` itself is missing: `?.` gives undefined either way)
\*   top      violations / recommendations
None == {}
Some(v) == {v}
The(opt) == CHOOSE v \in opt : TRUE
Arrays == {[i \in 1..n |-> "item"] : n \in 0..MaxItems}
ResultPayloads ==
  [count : {None} \cup {Some(n) : n \in 0..MaxItems},
   nested : {None} \cup {Some(a) : a \in Arrays},
   top : {None} \cup {Some(a) : a \in Arrays}]

\* `x?.length` used as a condition: undefined and 0 are falsy
TruthyLength(opt) == opt # None /\ Len(The(opt)) # 0

\* getViolationsCount(job) of StandardsJobItem
getViolationsCount(jb) ==
  IF jb.count # None THEN The(jb.count)
  ELSE IF TruthyLength(jb.nested) THEN Len(The(jb.nested))
  ELSE IF TruthyLength(jb.top) THEN Len(The(jb.top))
  ELSE 0

\* getRecommendationsCount(job) of OptimizationJobItem
getRecommendationsCount(jb) ==
  IF jb.count # None THEN The(jb.count)
  ELSE IF TruthyLength(jb.nested) THEN Len(The(jb.nested))
  ELSE IF TruthyLength(jb.top) THEN Len(The(jb.top))
  ELSE 0

\* one completion callback: the page it belongs to, the liveJob it reads
\* and the count it passed to onUpdate (None: not called yet)
NoPayload == [count |-> None, nested |-> None, top |-> None]
NoCounter == [page |-> NULL, liveJob |-> NoPayload, stored |-> None]

\* ---------------------------------------------------------------- history
Other == [type |-> "other", id |-> NULL, payload |-> NULL, inst |-> FALSE]
NoFetch == [seq |-> 0, payload |-> NULL]

\* ------------------------------------------------------------------- Init
\* Before the page is mounted; st is what localStorage holds and the server
\* knows the jobs that are listed there.
InitJobs(st) ==
  /\ storage = st
  /\ backend = [j \in JobIds |->
                  IF IsArray(LoadedJobs(st)) /\ j \in Ids(LoadedJobs(st))
                    THEN Summary(LoadedJobs(st), j).status ELSE "none"]
  /\ pageMounted = FALSE
  /\ allJobs = <<>>
  /\ activeTab = "ui"
  /\ dirty = FALSE
  /\ mounted = [j \in JobIds |-> FALSE]
  /\ job = [j \in JobIds |-> NULL]
  /\ error = [j \in JobIds |-> NULL]
  /\ savedCallback = [j \in JobIds |-> NoClosure]
  /\ isActive = [j \in JobIds |-> FALSE]
  /\ inflight = {}
  /\ nIssued = [j \in JobIds |-> 0]
  /\ doneCalls = [j \in JobIds |-> 0]
  /\ termSeen = [j \in JobIds |-> FALSE]
  /\ latestOk = [j \in JobIds |-> NoFetch]
  /\ lastEvent = Other
  /\ otherStorage = [k \in OtherKeys |-> Absent]
  /\ poller = PollerInit
  /\ watcher = WatcherInit

InitWith(st) == InitJobs(st) /\ counter = NoCounter

\* a fresh browser profile
Init == InitWith(Absent)

\* a profile whose entry was left by an earlier session or another build of
\* the client: no entry, text that does not parse, or a list with at most
\* one summary of any status
StoredJob(s) ==
  [job_id |-> "j1", type |-> "ui", status |-> s,
   progress |-> IF s \in Terminal THEN 100 ELSE 10, created_at |-> 0]
InitStorages ==
  {Absent, Unparsable, JSONstringify(<<>>)}
    \cup {JSONstringify(<<StoredJob(s)>>) : s \in JobStatus}

InitStored == \E st \in InitStorages : InitWith(st)

\* ------------------------------------------------------- page lifecycle
\* First render of TestcasesPage with allJobs = [] and its two effects: the
\* load effect calls setAllJobs with the parsed entry, the save effect
\* writes the allJobs of this render.
Mount ==
  /\ ~pageMounted
  /\ pageMounted' = ~LoadEscapes(storage)
  /\ activeTab' = "ui"
  /\ allJobs' = LoadedJobs(storage)
  /\ dirty' = LoadCallsSet(storage)
  /\ storage' = JSONstringify(<<>>)
  /\ UNCHANGED <<hookvars, otherStorage>>
  /\ lastEvent' = Other
  /\ UNCHANGED <<backend, mounted, job, error, savedCallback, isActive,
                 inflight, nIssued, doneCalls, termSeen, latestOk>>

\* Route change or page reload: every component unmounts, the cleanups
\* run, pending state is dropped; a fetch still in flight can only reach
\* setters of unmounted components.
Unmount ==
  /\ pageMounted
  /\ pageMounted' = FALSE
  /\ allJobs' = <<>>
  /\ activeTab' = "ui"
  /\ dirty' = FALSE
  /\ mounted' = [j \in JobIds |-> FALSE]
  /\ job' = [j \in JobIds |-> NULL]
  /\ error' = [j \in JobIds |-> NULL]
  /\ savedCallback' = [j \in JobIds |-> NoClosure]
  /\ isActive' = [j \in JobIds |-> FALSE]
  /\ inflight' = {}
  /\ termSeen' = [j \in JobIds |-> FALSE]
  /\ latestOk' = [j \in JobIds |-> NoFetch]
  /\ UNCHANGED <<hookvars, otherStorage>>
  /\ lastEvent' = Other
  /\ UNCHANGED <<backend, storage, nIssued, doneCalls>>

\* ---------------------------------------------------------- user actions
\* uiMutation / apiMutation onSuccess
SubmitSuccess(j, t) ==
  /\ pageMounted
  /\ backend[j] = "none"
  /\ backend' = [backend EXCEPT ![j] = "pending"]
  /\ allJobs' = Prepend(NewJob(j, t), allJobs)
  /\ dirty' = TRUE
  /\ UNCHANGED <<hookvars, otherStorage>>
  /\ lastEvent' = Other
  /\ UNCHANGED <<storage, pageMounted, activeTab, mounted, job, error,
                 savedCallback, isActive, inflight, nIssued, doneCalls,
                 termSeen, latestOk>>

\* onRemove of a mounted JobItem
RemoveClick(j) ==
  /\ pageMounted
  /\ mounted[j]
  /\ allJobs' = removeJob(allJobs, j)
  /\ dirty' = TRUE
  /\ UNCHANGED <<hookvars, otherStorage>>
  /\ lastEvent' = Other
  /\ UNCHANGED <<backend, storage, pageMounted, activeTab, mounted, job,
                 error, savedCallback, isActive, inflight, nIssued,
                 doneCalls, termSeen, latestOk>>

SetActiveTab(t) ==
  /\ pageMounted
  /\ activeTab # t
  /\ activeTab' = t
  /\ dirty' = TRUE
  /\ UNCHANGED <<hookvars, otherStorage>>
  /\ lastEvent' = Other
  /\ UNCHANGED <<backend, storage, pageMounted, allJobs, mounted, job,
                 error, savedCallback, isActive, inflight, nIssued,
                 doneCalls, termSeen, latestOk>>

\* the server moves a job forward
BackendStep(from, to) ==
  \/ from = "pending" /\ to = "processing"
  \/ from = "processing" /\ to \in {"completed", "failed"}
  \/ from \in NonTerminal /\ to = "cancelled"

BackendAdvance(j, to) ==
  /\ BackendStep(backend[j], to)
  /\ backend' = [backend EXCEPT ![j] = to]
  /\ UNCHANGED <<hookvars, otherStorage>>
  /\ lastEvent' = Other
  /\ UNCHANGED <<storage, pageMounted, allJobs, activeTab, dirty, mounted,
                 job, error, savedCallback, isActive, inflight, nIssued,
                 doneCalls, termSeen, latestOk>>

\* ------------------------------------------------------------ usePolling
\* What a commit does to the JobItem of job id j.  An item is mounted for
\* every entry of filteredJobs; a new item starts with job = error = null.
Visible(j) == j \in Ids(filteredJobs(allJobs, activeTab))
LiveAt(j) == IF mounted[j] THEN job[j] ELSE NULL
ClosureAt(j) == Closure(JobIdArg(Summary(allJobs, j)), LiveAt(j))
EnabledAt(j) ==
  Visible(j) /\ PollingEnabled(JobIdArg(Summary(allJobs, j)), LiveAt(j))

\* the polling effect runs (deps [interval, enabled]): `enabled` turned true
Activating == {j \in JobIds : EnabledAt(j) /\ ~isActive[j]}

\* fetches issued so far, over all job ids (bounded by MaxFetches)
RECURSIVE SumOver(_, _)
SumOver(f, S) ==
  IF S = {} THEN 0
  ELSE LET x == CHOOSE y \in S : TRUE IN f[x] + SumOver(f, S \ {x})
TotalIssued == SumOver(nIssued, JobIds)

\* the unsettled fetches of the mounted watcher of j
FetchesOf(j) == {f \in inflight : f.id = j /\ f.inst}

\* the fetch a tick issues for j through the closure cb
tick(j, cb) == poll(cb, nIssued[j] + 1)

\* A commit: TestcasesPage and its items re-run with the pending state;
\* then the effects: the save effect, per item `savedCallback.current =
\* callback`, and the polling effect's cleanup and body, whose `tick()`
\* call issues the first fetch at once.
RenderUpTo(budget) ==
  /\ pageMounted
  /\ dirty
  /\ TotalIssued + Cardinality(Activating) <= budget
  /\ dirty' = FALSE
  /\ storage' = JSONstringify(allJobs)
  /\ mounted' = [j \in JobIds |-> Visible(j)]
  /\ job' = [j \in JobIds |-> IF Visible(j) THEN LiveAt(j) ELSE NULL]
  /\ error' = [j \in JobIds |->
                 IF Visible(j) /\ mounted[j] THEN error[j] ELSE NULL]
  /\ savedCallback' = [j \in JobIds |->
                         IF Visible(j) THEN ClosureAt(j) ELSE NoClosure]
  /\ isActive' = [j \in JobIds |-> EnabledAt(j)]
  /\ inflight' =
       {[f EXCEPT !.inst = f.inst /\ Visible(f.id)] : f \in inflight}
         \cup UNION {tick(j, ClosureAt(j)) : j \in Activating}
  /\ nIssued' = [j \in JobIds |->
                   IF j \in Activating THEN nIssued[j] + 1 ELSE nIssued[j]]
  /\ termSeen' = [j \in JobIds |-> Visible(j) /\ mounted[j] /\ termSeen[j]]
  /\ latestOk' = [j \in JobIds |->
                    IF Visible(j) /\ mounted[j] THEN latestOk[j] ELSE NoFetch]
  /\ UNCHANGED <<hookvars, otherStorage>>
  /\ lastEvent' = Other
  /\ UNCHANGED <<backend, pageMounted, allJobs, activeTab, doneCalls>>

Render == RenderUpTo(MaxFetches)

\* the interval timer of j fires: `if (!isActive) return`, then
\* savedCallback.current().  setInterval does not wait for the previous
\* tick: an earlier fetch is still unsettled whenever it takes longer than
\* the interval, which the transport allows up to its timeout.
TimerTickUpTo(j, budget) ==
  /\ isActive[j]
  /\ TotalIssued < budget
  /\ ({f \in inflight : f.id = j /\ f.inst} = {}) \/ PollInterval < RequestTimeout
  /\ inflight' = inflight \cup tick(j, savedCallback[j])
  /\ nIssued' = [nIssued EXCEPT
                   ![j] = nIssued[j] + Cardinality(tick(j, savedCallback[j]))]
  /\ UNCHANGED <<hookvars, otherStorage>>
  /\ lastEvent' = Other
  /\ UNCHANGED <<backend, storage, pageMounted, allJobs, activeTab, dirty,
                 mounted, job, error, savedCallback, isActive, doneCalls,
                 termSeen, latestOk>>

TimerTick(j) == TimerTickUpTo(j, MaxFetches)

\* the fetch f resolves: the rest of poll's try block.  A setter of an
\* unmounted JobItem does nothing; onDone reaches the page's setAllJobs.
FetchOk(f) ==
  /\ f \in inflight
  /\ inflight' = inflight \ {f}
  /\ job' = IF f.inst THEN [job EXCEPT ![f.id] = f.payload] ELSE job
  /\ error' = IF f.inst THEN [error EXCEPT ![f.id] = NULL] ELSE error
  /\ allJobs' = IF CallsOnDone(f.payload)
                  THEN onDone(allJobs, f.id, f.liveJob) ELSE allJobs
  /\ dirty' = (dirty \/ f.inst \/ (CallsOnDone(f.payload) /\ f.liveJob # NULL))
  /\ doneCalls' = IF CallsOnDone(f.payload)
                    THEN [doneCalls EXCEPT ![f.id] = doneCalls[f.id] + 1]
                    ELSE doneCalls
  /\ termSeen' = IF f.inst /\ f.payload \in Terminal
                   THEN [termSeen EXCEPT ![f.id] = TRUE] ELSE termSeen
  /\ latestOk' = IF f.inst /\ f.seq > latestOk[f.id].seq
                   THEN [latestOk EXCEPT ![f.id] =
                           [seq |-> f.seq, payload |-> f.payload]]
                   ELSE latestOk
  /\ UNCHANGED <<hookvars, otherStorage>>
  /\ lastEvent' = [type |-> "ok", id |-> f.id, payload |-> f.payload,
                   inst |-> f.inst]
  /\ UNCHANGED <<backend, storage, pageMounted, activeTab, mounted,
                 savedCallback, isActive, nIssued>>

\* the fetch f rejects (network error, 5xx, timeout): poll's catch block
FetchFail(f, message) ==
  /\ f \in inflight
  /\ inflight' = inflight \ {f}
  /\ error' = IF f.inst THEN [error EXCEPT ![f.id] = ErrorText(message)]
              ELSE error
  /\ dirty' = (dirty \/ f.inst)
  /\ UNCHANGED <<hookvars, otherStorage>>
  /\ lastEvent' = [type |-> "fail", id |-> f.id, payload |-> NULL,
                   inst |-> f.inst]
  /\ UNCHANGED <<backend, storage, pageMounted, allJobs, activeTab, mounted,
                 job, savedCallback, isActive, nIssued, doneCalls, termSeen,
                 latestOk>>

\* ------------------------------------------------------------------ Spec
Next ==
  \/ Mount
  \/ Unmount
  \/ \E j \in Watched, t \in Tabs : SubmitSuccess(j, t)
  \/ \E j \in Watched : RemoveClick(j)
  \/ \E t \in Tabs : SetActiveTab(t)
  \/ \E j \in Watched, to \in JobStatus : BackendAdvance(j, to)
  \/ Render
  \/ \E j \in Watched : TimerTick(j)
  \/ \E f \in inflight : FetchOk(f)
  \/ \E f \in inflight, m \in ErrorMessages : FetchFail(f, m)

Spec == Init /\ [][Next]_vars

SpecStored == InitStored /\ [][Next]_vars

\* ------------------------------------------------------- one page visit
\* One stay on the page with one job of the open tab: no reload, no tab
\* change, no removal, no failing fetch, and a larger fetch budget.
NextVisit ==
  \/ Mount
  \/ \E j \in Watched : SubmitSuccess(j, "ui")
  \/ \E j \in Watched, to \in JobStatus : BackendAdvance(j, to)
  \/ RenderUpTo(VisitFetches)
  \/ \E j \in Watched : TimerTickUpTo(j, VisitFetches)
  \/ \E f \in inflight : FetchOk(f)

SpecVisit == Init /\ [][NextVisit]_vars

\* ------------------------------------------------------------ Scenario B
\* Two jobs of the same tab, each with its own JobItem and watcher; the
\* fetches of either may be slow, fail or succeed.
TwoFetches == MaxFetches

NextTwo ==
  \/ Mount
  \/ \E j \in JobIds : SubmitSuccess(j, "ui")
  \/ \E j \in JobIds, to \in {"processing", "completed"} :
       BackendAdvance(j, to)
  \/ RenderUpTo(TwoFetches)
  \/ \E j \in JobIds : TimerTickUpTo(j, TwoFetches)
  \/ \E f \in inflight : FetchOk(f)
  \/ \E f \in inflight : FetchFail(f, "Network Error")

SpecTwo == Init /\ [][NextTwo]_vars

\* ------------------------------------------------------------ Scenario D
\* The same visit where the first FailingTicks fetches are rejected and
\* every later one is answered with status failed; each tick finds the
\* previous fetch settled.
TickD(j) ==
  /\ FetchesOf(j) = {}
  /\ nIssued[j] >= FailingTicks => backend[j] = "failed"
  /\ TimerTickUpTo(j, ScenarioFetches)

RenderD ==
  /\ \A j \in Activating : nIssued[j] >= FailingTicks => backend[j] = "failed"
  /\ RenderUpTo(ScenarioFetches)

FailD(f, message) == f.seq <= FailingTicks /\ FetchFail(f, message)

OkD(f) == f.seq > FailingTicks /\ FetchOk(f)

NextD ==
  \/ Mount
  \/ \E j \in Watched : SubmitSuccess(j, "ui")
  \/ \E j \in Watched, to \in JobStatus : BackendAdvance(j, to)
  \/ RenderD
  \/ \E j \in Watched : TickD(j)
  \/ \E f \in inflight, m \in ErrorMessages : FailD(f, m)
  \/ \E f \in inflight : OkD(f)

SpecD == Init /\ [][NextD]_vars

\* ------------------------------------------------------- the job list store
\* The list operations of the page on their own, for both job ids: append
\* (SubmitSuccess), update, remove, the save effect and a reload.  The items
\* and their watchers are left out: updateJobStatus and removeJob are called
\* with any job id, in the list or not.

\* what JobItem hands to onUpdate: `{ status, progress: 100, ... }`
Updates == {[status |-> st, progress |-> 100] : st \in JobStatus}

StoreUpdate(j, updates) ==
  /\ pageMounted
  /\ allJobs' = updateJobStatus(allJobs, j, updates)
  /\ dirty' = TRUE
  /\ UNCHANGED <<hookvars, otherStorage>>
  /\ lastEvent' = [type |-> "update", id |-> j, payload |-> updates,
                   inst |-> FALSE]
  /\ UNCHANGED <<backend, storage, pageMounted, activeTab, mounted, job,
                 error, savedCallback, isActive, inflight, nIssued,
                 doneCalls, termSeen, latestOk>>

StoreRemove(j) ==
  /\ pageMounted
  /\ allJobs' = removeJob(allJobs, j)
  /\ dirty' = TRUE
  /\ UNCHANGED <<hookvars, otherStorage>>
  /\ lastEvent' = [type |-> "remove", id |-> j, payload |-> NULL,
                   inst |-> FALSE]
  /\ UNCHANGED <<backend, storage, pageMounted, activeTab, mounted, job,
                 error, savedCallback, isActive, inflight, nIssued,
                 doneCalls, termSeen, latestOk>>

\* the save effect of the commit that follows a list operation; the event
\* it records names the operation it has committed
Persist ==
  /\ pageMounted
  /\ dirty
  /\ storage' = JSONstringify(allJobs)
  /\ dirty' = FALSE
  /\ UNCHANGED <<hookvars, otherStorage>>
  /\ lastEvent' = [type |-> "save", id |-> lastEvent.id,
                   payload |-> lastEvent.type, inst |-> FALSE]
  /\ UNCHANGED <<backend, pageMounted, allJobs, activeTab, mounted, job,
                 error, savedCallback, isActive, inflight, nIssued,
                 doneCalls, termSeen, latestOk>>

\* uiMutation / apiMutation is rejected: there is no onError, the page
\* state is not touched
SubmitFailure(t) ==
  /\ pageMounted
  /\ UNCHANGED <<hookvars, otherStorage>>
  /\ lastEvent' = [type |-> "submit_failed", id |-> NULL, payload |-> t,
                   inst |-> FALSE]
  /\ UNCHANGED <<backend, storage, pageMounted, allJobs, activeTab, dirty,
                 mounted, job, error, savedCallback, isActive, inflight,
                 nIssued, doneCalls, termSeen, latestOk>>

NextStore ==
  \/ Mount
  \/ Unmount
  \/ \E j \in JobIds, t \in Tabs : SubmitSuccess(j, t)
  \/ \E t \in Tabs : SubmitFailure(t)
  \/ \E j \in JobIds, u \in Updates : StoreUpdate(j, u)
  \/ \E j \in JobIds : StoreRemove(j)
  \/ Persist

SpecStore == Init /\ [][NextStore]_vars

\* ------------------------------------------------------ the other pages
\* localStorage.setItem(key, value)
setItem(key, value) ==
  /\ storage' = IF key = PageKey("testcases") THEN value ELSE storage
  /\ otherStorage' = [k \in OtherKeys |->
                        IF k = key THEN value ELSE otherStorage[k]]

\* what another page has in its list when its save effect runs
OtherLists ==
  {<<[job_id |-> "j2", status |-> "pending", progress |-> 10,
      created_at |-> 1]>>}

\* the save effect of AutotestsPage, StandardsPage or OptimizationPage
OtherPageSave(p, jobs) ==
  /\ otherStorage[PageKey(p)] # JSONstringify(jobs)
  /\ setItem(PageKey(p), JSONstringify(jobs))
  /\ lastEvent' = [type |-> "other_page", id |-> NULL, payload |-> p,
                   inst |-> FALSE]
  /\ UNCHANGED hookvars
  /\ UNCHANGED <<backend, pageMounted, allJobs, activeTab, dirty, mounted,
                 job, error, savedCallback, isActive, inflight, nIssued,
                 doneCalls, termSeen, latestOk>>

\* the updates a watcher of a running job reports
KindUpdates == {u \in Updates : u.status \in {"processing", "completed"}}

NextKinds ==
  \/ Mount
  \/ \E j \in JobIds, t \in Tabs : SubmitSuccess(j, t)
  \/ \E j \in JobIds, u \in KindUpdates : StoreUpdate(j, u)
  \/ \E j \in JobIds : StoreRemove(j)
  \/ Persist
  \/ \E p \in OtherPages, jobs \in OtherLists : OtherPageSave(p, jobs)

SpecKinds == Init /\ [][NextKinds]_vars

\* the same store in a profile whose entry does not parse
SpecCorrupt == InitWith(Unparsable) /\ [][NextStore]_vars

\* ------------------------------------------------------------ SpecPoller
\* the consumer renders with new props (or for the first time)
PollerRender(cb, iv, en) ==
  /\ ~poller.mounted
       \/ <<cb, iv, en>> # <<poller.callback, poller.interval, poller.enabled>>
  /\ usePolling(poller, cb, iv, en).act <= MaxActivations
  /\ usePolling(poller, cb, iv, en).invoked <= MaxInvocations
  /\ poller' = [usePolling(poller, cb, iv, en) EXCEPT
                  !.last = [type |-> "render", act |-> 0, n |-> 0]]
  /\ UNCHANGED <<pagevars, watcher, counter>>

PollerUnmount ==
  /\ poller.mounted
  /\ poller' = [unmountPolling(poller) EXCEPT
                  !.last = [type |-> "unmount", act |-> 0, n |-> 0]]
  /\ UNCHANGED <<pagevars, watcher, counter>>

\* the interval of activation a elapses: its callback is due
TimerFires(a) ==
  /\ a \in poller.timers
  /\ a \notin poller.queued
  /\ poller' = [poller EXCEPT !.queued = @ \cup {a},
                              !.last = [type |-> "due", act |-> a, n |-> 0]]
  /\ UNCHANGED <<pagevars, watcher, counter>>

\* a due callback runs, whether or not its interval was cleared meanwhile
RunTick(a) ==
  /\ a \in poller.queued
  /\ tickOf(poller, a).invoked <= MaxInvocations
  /\ poller' = [tickOf(poller, a) EXCEPT
                  !.queued = @ \ {a},
                  !.last = [type |-> "tick", act |-> a,
                            n |-> IF tickOf(poller, a).invoked > poller.invoked
                                    THEN poller.invoked + 1 ELSE 0]]
  /\ UNCHANGED <<pagevars, watcher, counter>>

\* the promise of a callback() call resolves or rejects
ActionSettles(r, outcome) ==
  /\ r \in poller.running
  /\ poller' = [settle(poller, r, outcome) EXCEPT
                  !.last = [type |-> outcome, act |-> r.act, n |-> r.n]]
  /\ UNCHANGED <<pagevars, watcher, counter>>

NextPoller ==
  \/ \E cb \in Callbacks, iv \in Intervals, en \in BOOLEAN :
       PollerRender(cb, iv, en)
  \/ PollerUnmount
  \/ \E a \in 1..MaxActivations : TimerFires(a)
  \/ \E a \in 1..MaxActivations : RunTick(a)
  \/ \E r \in poller.running, outcome \in Outcomes : ActionSettles(r, outcome)

SpecPoller == Init /\ [][NextPoller]_vars

\* ----------------------------------------------------------- SpecWatcher
WatcherPolling(id) ==
  usePolling(poller, PollOf(id), PollInterval,
             PollingEnabled(id, watcher.job.status))

\* the consumer renders: first render, new argument, or a state changed
WatcherRender(id) ==
  /\ ~watcher.mounted \/ id # watcher.jobId \/ watcher.dirty
  /\ WatcherPolling(id).act <= MaxActivations
  /\ WatcherPolling(id).invoked <= MaxInvocations
  /\ watcher' = useJobWatcher(watcher, id)
  /\ poller' = [WatcherPolling(id) EXCEPT
                  !.last = [type |-> "render", act |-> 0, n |-> 0]]
  /\ UNCHANGED <<pagevars, counter>>

\* the fetch of the poll() call r resolves with a payload of status st:
\* the rest of poll's try block; then the tick ends
WatcherFetchOk(r, st) ==
  /\ r \in poller.running
  /\ r.callback.jobId # NULL
  /\ watcher' = [watcher EXCEPT
                   !.job = [job_id |-> r.callback.jobId, status |-> st],
                   !.error = NULL,
                   !.dirty = TRUE,
                   !.doneCalls = IF CallsOnDone(st) THEN @ + 1 ELSE @]
  /\ poller' = [settle(poller, r, "resolve") EXCEPT
                  !.last = [type |-> "resolve", act |-> r.act, n |-> r.n]]
  /\ UNCHANGED <<pagevars, counter>>

\* the fetch rejects: poll's catch block; poll itself resolves
WatcherFetchFail(r, message) ==
  /\ r \in poller.running
  /\ r.callback.jobId # NULL
  /\ watcher' = [watcher EXCEPT !.error = ErrorText(message), !.dirty = TRUE]
  /\ poller' = [settle(poller, r, "resolve") EXCEPT
                  !.last = [type |-> "resolve", act |-> r.act, n |-> r.n]]
  /\ UNCHANGED <<pagevars, counter>>

NextWatcher ==
  \/ \E id \in JobIds \cup {NULL} : WatcherRender(id)
  \/ \E a \in 1..MaxActivations : TimerFires(a)
  \/ \E a \in 1..MaxActivations : RunTick(a)
  \/ \E r \in poller.running, st \in JobStatus : WatcherFetchOk(r, st)
  \/ \E r \in poller.running, m \in ErrorMessages : WatcherFetchFail(r, m)

SpecWatcher == Init /\ [][NextWatcher]_vars

\* ----------------------------------------------------------- SpecForeign
\* The store in a profile whose entry may hold any text.
\* The render that follows setAllJobs(value) with a value that is not an
\* array: `allJobs.filter` throws in the component function; there is no
\* error boundary, so React unmounts the tree.  The render does not commit
\* and its save effect does not run.
RenderCrash ==
  /\ pageMounted
  /\ dirty
  /\ ~IsArray(allJobs)
  /\ pageMounted' = FALSE
  /\ allJobs' = <<>>
  /\ activeTab' = "ui"
  /\ dirty' = FALSE
  /\ UNCHANGED <<hookvars, otherStorage>>
  /\ lastEvent' = [type |-> "crash", id |-> NULL, payload |-> NULL,
                   inst |-> FALSE]
  /\ UNCHANGED <<backend, storage, mounted, job, error, savedCallback,
                 isActive, inflight, nIssued, doneCalls, termSeen, latestOk>>

InitForeign ==
  \E st \in InitStorages \cup {NonArrayJSON(k) : k \in NonArrayKinds} :
    InitWith(st)

\* the handlers of a page that has rendered its list
NextForeignList ==
  \/ \E j \in Watched : SubmitSuccess(j, "ui")
  \/ \E j \in JobIds, u \in KindUpdates : StoreUpdate(j, u)
  \/ \E j \in JobIds : StoreRemove(j)
  \/ Persist

NextForeign ==
  \/ Mount
  \/ Unmount
  \/ RenderCrash
  \/ IsArray(allJobs) /\ NextForeignList

SpecForeign == InitForeign /\ [][NextForeign]_vars

\* ------------------------------------------------------------- SpecCount
\* The completion callback of a finished job of the standards or of the
\* optimization page, for every payload the server may send.
InitCount ==
  /\ InitJobs(Absent)
  /\ counter \in [page : {"standards", "optimization"},
                   liveJob : ResultPayloads, stored : {None}]

\* onDone of StandardsJobItem: onUpdate({..., violations_count})
StandardsOnDone ==
  /\ counter.page = "standards"
  /\ counter.stored = None
  /\ counter' = [counter EXCEPT
                   !.stored = Some(getViolationsCount(counter.liveJob))]
  /\ UNCHANGED <<pagevars, poller, watcher>>

\* onDone of OptimizationJobItem: onUpdate({..., recommendations_count})
OptimizationOnDone ==
  /\ counter.page = "optimization"
  /\ counter.stored = None
  /\ counter' = [counter EXCEPT
                   !.stored = Some(getRecommendationsCount(counter.liveJob))]
  /\ UNCHANGED <<pagevars, poller, watcher>>

NextCount == StandardsOnDone \/ OptimizationOnDone

SpecCount == InitCount /\ [][NextCount]_vars

\* ================================================================ claims
Settled(type) == lastEvent'.type = type /\ lastEvent'.inst
Entry(jobs, j) == Summary(jobs, j)

\* C1: when a fetch of a mounted watcher first returns completed or failed
\* for a job that is in the list, the summary of that job has this status
\* and progress 100 afterwards.
C1_ReconciledOnCompletion ==
  [][\A j \in JobIds :
       (/\ Settled("ok") /\ lastEvent'.id = j
        /\ lastEvent'.payload \in {"completed", "failed"}
        /\ ~termSeen[j]
        /\ j \in Ids(allJobs))
       => (/\ j \in Ids(allJobs')
           /\ Entry(allJobs', j).status = lastEvent'.payload
           /\ Entry(allJobs', j).progress = 100)]_vars

\* C2: at most one fetch issued by a watcher is in flight at any instant.
C2_OneFetchInFlight ==
  \A j \in JobIds : Cardinality(FetchesOf(j)) <= 1

\* C3: the completion callback is invoked exactly once per watched job id:
\* never twice, and once as soon as a terminal payload has been received.
C3_OnDoneExactlyOnce ==
  \A j \in JobIds :
    /\ doneCalls[j] <= 1
    /\ (termSeen[j] => doneCalls[j] = 1)

\* C4: once a mounted watcher has received a terminal payload for j it
\* issues no further fetch for j.
C4_NoFetchAfterTerminal ==
  [][\A j \in JobIds : termSeen[j] => nIssued'[j] = nIssued[j]]_vars

\* C5: a fetch that settles after its watcher was unmounted, disabled or
\* given a null job id changes neither job nor error, invokes no completion
\* callback and leaves the job list alone.
C5_NoPostDisposalEffects ==
  [][(/\ lastEvent'.type \in {"ok", "fail"}
      /\ \/ ~lastEvent'.inst
         \/ ~isActive[lastEvent'.id]
         \/ savedCallback[lastEvent'.id].jobId = NULL)
     => (/\ job' = job
         /\ error' = error
         /\ doneCalls' = doneCalls
         /\ allJobs' = allJobs)]_vars

\* C6: the job view of a watcher is the payload of the most recently issued
\* fetch among those that have succeeded.
C6_AppliedInIssuanceOrder ==
  \A j \in JobIds : latestOk[j].seq > 0 => job[j] = latestOk[j].payload

\* C7: with the item mounted, the backend terminal and the terminal payload
\* fetched, the run comes to rest (nothing to commit, no fetch in flight, no
\* timer) only with the summary at that terminal status and the watcher
\* detached; a state of rest where this fails is never left without a user
\* action, so there the summary never reaches the terminal status.
C7_ReconciledAtRest ==
  \A j \in JobIds :
    (/\ pageMounted /\ mounted[j] /\ ~dirty
     /\ inflight = {} /\ ~isActive[j]
     /\ backend[j] \in Terminal /\ job[j] = backend[j])
    => (/\ Entry(allJobs, j).status = backend[j]
        /\ savedCallback[j].jobId = NULL)

C9_TerminalStopsAndCallsBack ==
  [][\A j \in JobIds :
       /\ (/\ Settled("ok") /\ lastEvent'.id = j
           /\ lastEvent'.payload \in Terminal /\ ~termSeen[j])
          => doneCalls'[j] = doneCalls[j] + 1
       /\ (mounted'[j] /\ ~dirty' /\ job'[j] \in Terminal)
          => ~isActive'[j]]_vars

\* C10: a failed fetch leaves the job view as it was, sets error to a
\* non-empty message and keeps the timer; a watcher that shows an error
\* keeps its timer over every step after which it is still mounted with a
\* job id and a job view that is not terminal.
C10_FailureKeepsPolling ==
  [][\A j \in JobIds :
       /\ (Settled("fail") /\ lastEvent'.id = j)
          => (/\ job' = job
              /\ error'[j] # NULL /\ error'[j] # ""
              /\ isActive' = isActive
              /\ savedCallback' = savedCallback)
       /\ (/\ isActive[j] /\ error[j] # NULL
           /\ mounted'[j] /\ savedCallback'[j].jobId # NULL
           /\ job'[j] \notin Terminal)
          => isActive'[j]]_vars

\* C10 witness: a fetch failed without a message while the last known
\* status was not terminal, the timer is alive and the next tick has
\* issued another fetch.
C10_Witness ==
  \E j \in JobIds :
    /\ error[j] = "Failed to fetch job"
    /\ job[j] \in NonTerminal
    /\ isActive[j]
    /\ \E f \in FetchesOf(j) : f.seq = nIssued[j] /\ f.seq >= 3

\* ------------------------------------------------------ the job list store
IdSeq(jobs) == [i \in 1..Len(jobs) |-> jobs[i].job_id]
NewestFirst(jobs) ==
  \A i, k \in 1..Len(jobs) : i < k => jobs[i].created_at >= jobs[k].created_at
\* the summaries both lists have are in the same relative order, and a
\* summary only `new` has stands at its head
KeepsOrder(old, new) ==
  /\ IdSeq(SelectSeq(old, LAMBDA s : s.job_id \in Ids(new)))
       = IdSeq(SelectSeq(new, LAMBDA s : s.job_id \in Ids(old)))
  /\ \A i \in 1..Len(new) : new[i].job_id \notin Ids(old) => i = 1

\* C18: after any sequence of append, update and remove the list is ordered
\* newest first: an append puts the new summary at index 0, an update or a
\* remove keeps the relative order of the summaries.
C18_NewestFirst ==
  [][(pageMounted /\ pageMounted')
     => (NewestFirst(allJobs') /\ KeepsOrder(allJobs, allJobs'))]_vars

\* two summaries, the older one already updated, the newer one at the head
C18_Witness ==
  /\ Len(allJobs) = 2
  /\ allJobs[1].created_at > allJobs[2].created_at
  /\ allJobs[2].status = "completed"
  /\ allJobs[1].status = "pending"

\* C19: update(jobId, partial) merges the fields of partial into the
\* summary with that job id and leaves every other summary, the length and
\* the order of the list unchanged; without a matching summary the list is
\* unchanged.
C19_UpdateFrame ==
  [][lastEvent'.type = "update"
     => LET j == lastEvent'.id
            u == lastEvent'.payload
        IN /\ Len(allJobs') = Len(allJobs)
           /\ \A i \in 1..Len(allJobs) :
                IF allJobs[i].job_id = j
                  THEN /\ allJobs'[i].status = u.status
                       /\ allJobs'[i].progress = u.progress
                       /\ allJobs'[i].job_id = j
                       /\ allJobs'[i].type = allJobs[i].type
                       /\ allJobs'[i].created_at = allJobs[i].created_at
                  ELSE allJobs'[i] = allJobs[i]
           /\ (j \notin Ids(allJobs) => allJobs' = allJobs)]_vars

\* an update has just changed one of two summaries
C19_Witness ==
  /\ lastEvent.type = "update"
  /\ Len(allJobs) = 2
  /\ \E i, k \in 1..2 :
       /\ allJobs[i].job_id = lastEvent.id
       /\ allJobs[i].status = lastEvent.payload.status
       /\ allJobs[i].progress = 100
       /\ allJobs[k].job_id # lastEvent.id
       /\ allJobs[k].progress = 10

\* C20: after remove(jobId) the list in memory has no summary with that job
\* id and keeps every other summary unchanged, and so does the stored list
\* once the save effect of that commit has run.
C20_RemoveDropsEverywhere ==
  [][/\ lastEvent'.type = "remove"
        => /\ lastEvent'.id \notin Ids(allJobs')
           /\ allJobs' = SelectSeq(allJobs, LAMBDA s : s.job_id # lastEvent'.id)
     /\ (lastEvent'.type = "save" /\ lastEvent'.payload = "remove")
        => /\ storage' = JSONstringify(allJobs)
           /\ allJobs' = allJobs
           /\ lastEvent'.id \notin Ids(LoadedJobs(storage'))]_vars

\* a removal from a list of two has been saved: the other summary is kept
C20_Witness ==
  /\ lastEvent.type = "save"
  /\ lastEvent.payload = "remove"
  /\ backend[lastEvent.id] # "none"
  /\ Len(allJobs) = 1
  /\ storage = JSONstringify(allJobs)
  /\ lastEvent.id \notin Ids(allJobs)

\* ------------------------------------------------------------ one visit
Rank(status) ==
  IF status = "pending" THEN 0 ELSE IF status = "processing" THEN 1 ELSE 2

\* C17: while the server only moves a job forward, no step replaces the
\* status stored in a summary by one that precedes it.
C17_StoredStatusForward ==
  [][\A j \in JobIds :
       (j \in Ids(allJobs) /\ j \in Ids(allJobs'))
       => Rank(Entry(allJobs', j).status) >= Rank(Entry(allJobs, j).status)]_vars

\* C11: Scenario D.  Once the answered fetch (the one after FailingTicks
\* rejected ones) has settled, error is null, job holds the failed payload,
\* the completion callback has run exactly once and no further fetch is
\* issued.
C11_ScenarioD ==
  \A j \in JobIds :
    latestOk[j].seq > FailingTicks
    => (/\ error[j] = NULL
        /\ job[j] = "failed"
        /\ doneCalls[j] = 1
        /\ nIssued[j] = FailingTicks + 1)

\* ------------------------------------------------- usePolling, on its own
PollerStep(type) == poller' # poller /\ poller'.last.type = type

\* C12: a rejection of the action is caught inside the tick (logged, never
\* unhandled) and leaves the schedule alone: the interval, its flag and a
\* callback that is already due stay as they are, and a tick of a live
\* activation invokes the action again.
C12_RejectionCaught ==
  [][/\ poller'.unhandled = 0
     /\ PollerStep("reject")
        => /\ [act |-> poller'.last.act, n |-> poller'.last.n]
                \in poller'.logged
           /\ poller'.timers = poller.timers
           /\ poller'.isActive = poller.isActive
           /\ poller'.queued = poller.queued
           /\ poller'.savedCallback = poller.savedCallback
     /\ (PollerStep("tick") /\ poller'.last.act \in poller.isActive)
        => /\ poller'.invoked = poller.invoked + 1
           /\ poller'.last.act \in poller'.timers]_vars

\* a call of the action was rejected and logged, and a later tick of the
\* same activation has just invoked the action again
C12_Witness ==
  /\ poller.last.type = "tick"
  /\ poller.last.act \in poller.timers
  /\ \E l \in poller.logged :
       l.act = poller.last.act /\ l.n < poller.last.n

\* C13: at most one interval is alive per consumer at any time, and an
\* interval only survives a step that changes neither `interval` nor
\* `enabled` and keeps the consumer mounted: a reconfiguration clears the
\* previous interval before it creates one.
C13_OneTimer ==
  [][/\ Cardinality(poller'.timers) <= 1
     /\ \A a \in poller.timers \cap poller'.timers :
          /\ poller'.mounted
          /\ poller'.interval = poller.interval
          /\ poller'.enabled = poller.enabled]_vars

\* the second run of the effect has the only interval, the first one's
\* callback is still due
C13_Witness ==
  /\ poller.mounted
  /\ poller.timers = {2}
  /\ 1 \in poller.queued

\* C14: an activation that was disposed (enabled turned false, interval
\* changed, consumer unmounted) never invokes the action again, also when a
\* callback of its interval was already due; and it is never revived.
C14_NoInvocationAfterDisposal ==
  [][/\ \A r \in poller'.running \ poller.running :
          r.act \in poller'.isActive
     /\ poller'.isActive \ poller.isActive \subseteq {poller.act + 1}
     /\ poller'.isActive \subseteq poller'.timers]_vars

\* a callback that was due when its activation was disposed has run and
\* invoked nothing
C14_Witness ==
  /\ poller.last.type = "tick"
  /\ poller.last.act \notin poller.isActive
  /\ poller.last.n = 0
  /\ poller.invoked > 0

\* ---------------------------------------------- useJobWatcher, on its own
\* C15: whenever the jobId argument is null the watcher returns a null job,
\* has no live activation and no fetch for a null id, also when the
\* argument became null after a payload was fetched for an earlier id.
C15_NullIdNullJob ==
  (watcher.mounted /\ watcher.jobId = NULL)
  => (/\ watcher.returned.job = NoJob
      /\ poller.isActive = {}
      /\ \A r \in poller.running : r.callback.jobId # NULL)

\* C16: a render whose jobId argument is another non-null id than that of
\* the render before returns job = null and error = null and leaves a live
\* activation whose callback polls the new id, whatever was last known
\* about the old id.
C16_SwitchResets ==
  [][(/\ watcher.mounted
      /\ watcher.jobId # NULL
      /\ watcher'.jobId \notin {NULL, watcher.jobId})
     => (/\ watcher'.returned = [job |-> NoJob, error |-> NULL]
         /\ poller'.isActive # {}
         /\ poller'.savedCallback.jobId = watcher'.jobId)]_vars

\* ------------------------------------------------------ the job list store
\* C21: whenever the list is committed, the stored value is the JSON of the
\* whole list in its order and parses back to an equal list; an unmount
\* leaves the stored value alone and a mount hydrates what is stored, so a
\* reload yields the list of before, element by element.
C21_RoundTrip ==
  [][/\ (pageMounted' /\ ~dirty')
        => /\ storage' = JSONstringify(allJobs')
           /\ LoadedJobs(storage') = allJobs'
     /\ (pageMounted /\ ~pageMounted') => storage' = storage
     /\ (~pageMounted /\ pageMounted') => allJobs' = LoadedJobs(storage)]_vars

\* a reload has just hydrated a list of two, the older one updated
C21_Witness ==
  /\ pageMounted
  /\ dirty
  /\ storage = JSONstringify(<<>>)
  /\ Len(allJobs) = 2
  /\ allJobs[1].created_at > allJobs[2].created_at
  /\ allJobs[2].status = "completed"
  /\ allJobs[2].progress = 100

\* C22: a mount that finds text that is not JSON under the key ends with
\* the page mounted (no exception left the load effect), an empty list and
\* no pending change; afterwards every commit stores the whole list, so
\* later appends are persisted.
C22_UnparsableFailsSoft ==
  [][/\ (~pageMounted /\ storage.kind = "unparsable" /\ storage' # storage)
        => /\ pageMounted'
           /\ allJobs' = <<>>
           /\ ~dirty'
     /\ (pageMounted' /\ ~dirty')
        => /\ storage'.kind = "array"
           /\ LoadedJobs(storage') = allJobs']_vars

\* after the mount over the unparsable entry one job was appended and saved
C22_Witness ==
  /\ pageMounted
  /\ ~dirty
  /\ Len(allJobs) = 1
  /\ Cardinality({j \in JobIds : backend[j] # "none"}) = 1
  /\ LoadedJobs(storage) = allJobs

\* C23: the list in memory and the stored list hold at most one summary
\* per job id, the server giving every accepted submission a new id.
C23_OneSummaryPerId ==
  /\ Cardinality(Ids(allJobs)) = Len(allJobs)
  /\ Cardinality(Ids(LoadedJobs(storage))) = Len(LoadedJobs(storage))

\* two jobs were submitted, one was updated, both are listed once
C23_Witness ==
  /\ Len(allJobs) = 2
  /\ Ids(allJobs) = JobIds
  /\ allJobs[2].status = "failed"
  /\ Len(LoadedJobs(storage)) = 2

\* C24: while the page stays mounted a summary only enters the list in the
\* step of a successful submission: exactly one, with the returned job id,
\* status pending and progress 10, at the head, the rest as before; a
\* failed submission leaves the list unchanged.
C24_CreatedBySubmission ==
  [][/\ (pageMounted /\ pageMounted' /\ Ids(allJobs') \ Ids(allJobs) # {})
        => \E j \in JobIds :
             /\ backend[j] = "none" /\ backend'[j] = "pending"
             /\ Len(allJobs') = Len(allJobs) + 1
             /\ allJobs'[1].job_id = j
             /\ allJobs'[1].status = "pending"
             /\ allJobs'[1].progress = 10
             /\ Tail(allJobs') = allJobs
     /\ lastEvent'.type = "submit_failed"
        => (allJobs' = allJobs /\ backend' = backend /\ storage' = storage)]_vars

\* a second submission has just put its summary in front of the saved
\* first one
C24_Witness ==
  /\ Len(allJobs) = 2
  /\ dirty
  /\ allJobs[1].status = "pending"
  /\ allJobs[1].progress = 10
  /\ allJobs[1].job_id \notin Ids(LoadedJobs(storage))
  /\ allJobs[2].job_id \in Ids(LoadedJobs(storage))

C26_EveryRunningJobWatched ==
  (pageMounted /\ ~dirty)
  => \A i \in 1..Len(allJobs) :
       allJobs[i].status \in NonTerminal
       => /\ mounted[allJobs[i].job_id]
          /\ isActive[allJobs[i].job_id]
          /\ savedCallback[allJobs[i].job_id].jobId = allJobs[i].job_id

\* C27 (Scenario B): two watchers of different job ids are independent.
\* A response or a failure of the other id changes nothing of j: not its
\* job view, its error, its polling, its fetches, its completion calls or
\* its summary.  The view of j changes only by a response of j, to the
\* status of that response, and its summary only by a response of j.  An
\* active watcher's tick can issue its fetch whatever is in flight.
C27_WatchersIndependent ==
  [][\A j \in JobIds :
       /\ (lastEvent'.type \in {"ok", "fail"} /\ lastEvent'.id # j)
          => /\ job'[j] = job[j]
             /\ error'[j] = error[j]
             /\ isActive'[j] = isActive[j]
             /\ nIssued'[j] = nIssued[j]
             /\ doneCalls'[j] = doneCalls[j]
             /\ {f \in inflight' : f.id = j} = {f \in inflight : f.id = j}
             /\ j \in Ids(allJobs)
                => /\ j \in Ids(allJobs')
                   /\ Summary(allJobs', j) = Summary(allJobs, j)
       /\ (mounted[j] /\ mounted'[j] /\ job'[j] # job[j])
          => /\ lastEvent'.type = "ok" /\ lastEvent'.id = j
             /\ job'[j] = lastEvent'.payload
       /\ (/\ j \in Ids(allJobs) /\ j \in Ids(allJobs')
           /\ Summary(allJobs', j) # Summary(allJobs, j))
          => lastEvent'.type = "ok" /\ lastEvent'.id = j
       /\ (isActive[j] /\ TotalIssued < TwoFetches)
          => ENABLED TimerTickUpTo(j, TwoFetches)]_vars

\* the first fetch for j1 is still unanswered while the watcher of j2 has
\* ticked again and shows the completed job
C27_Witness ==
  /\ \E f \in inflight : f.id = "j1" /\ f.seq = 1 /\ f.inst
  /\ job["j1"] = NULL
  /\ nIssued["j2"] = 2
  /\ job["j2"] = "completed"
  /\ error["j2"] = NULL

\* ------------------------------------------------- updates of two watchers
Carries(s, updates) == \A k \in DOMAIN updates : s[k] = updates[k]

\* C28: completion updates for two different jobs of the list commute and
\* neither is lost: applied in either order to the list as it is, rendered
\* or not, they give the same list, in which a carries ua, b carries ub and
\* every other summary is as before.
C28_UpdatesCommute ==
  pageMounted
  => \A a, b \in Ids(allJobs) :
       a # b
       => \A ua, ub \in Updates :
            LET ab == updateJobStatus(updateJobStatus(allJobs, a, ua), b, ub)
                ba == updateJobStatus(updateJobStatus(allJobs, b, ub), a, ua)
            IN /\ ab = ba
               /\ IdSeq(ab) = IdSeq(allJobs)
               /\ Carries(Summary(ab, a), ua)
               /\ Carries(Summary(ab, b), ub)
               /\ \A i \in 1..Len(ab) :
                    ab[i].job_id \notin {a, b} => ab[i] = allJobs[i]

\* both updates were issued since the last render: the list carries them
\* while the entry written by that render still shows both jobs pending
C28_Witness ==
  /\ pageMounted /\ dirty
  /\ lastEvent.type = "update"
  /\ Ids(allJobs) = {"j1", "j2"}
  /\ Summary(allJobs, "j1").status = "completed"
  /\ Summary(allJobs, "j2").status = "failed"
  /\ storage.kind = "array" /\ Len(storage.items) = 2
  /\ \A i \in 1..2 : ObjectOf(storage.items[i]).status = "pending"

\* ------------------------------------------------- usePolling, on its own
\* C29: the render that enables the Poller invokes the action once at once,
\* before its interval has elapsed, and starts the interval; every elapsed
\* interval of the enabled Poller then invokes it once; and no step invokes
\* the action while the Poller is disabled or unmounted.
C29_ImmediateThenPerInterval ==
  [][/\ (/\ PollerStep("render")
         /\ poller'.enabled
         /\ ~(poller.mounted /\ poller.enabled))
        => /\ poller'.invoked = poller.invoked + 1
           /\ poller'.running \ poller.running =
                {[act |-> poller'.act, callback |-> poller'.savedCallback,
                  n |-> poller'.invoked]}
           /\ poller'.timers = {poller'.act}
           /\ poller'.act \notin poller'.queued
     /\ (PollerStep("tick") /\ poller.enabled /\ poller.mounted
           /\ poller'.last.act = poller.act)
        => /\ poller'.invoked = poller.invoked + 1
           /\ poller'.queued = poller.queued \ {poller.act}
     /\ poller'.invoked # poller.invoked
        => /\ poller'.mounted /\ poller'.enabled
           /\ poller'.invoked = poller.invoked + 1]_vars

\* the Poller was enabled once; the action was invoked at once and again
\* when the interval had elapsed
C29_Witness ==
  /\ poller.mounted /\ poller.enabled
  /\ poller.act = 1
  /\ poller.last.type = "tick"
  /\ poller.last.n = 2
  /\ poller.invoked = 2

\* ----------------------------------------------------- the watcher's view
\* C30: with a backend whose statuses only move forward, a terminal status
\* is absorbing in the live view of a mounted watcher: once a render has
\* shown `job` completed, failed or cancelled it never shows pending or
\* processing again, and polling that was switched off for it stays off.
C30_TerminalAbsorbing ==
  [][\A j \in JobIds :
       (mounted[j] /\ mounted'[j] /\ ~dirty /\ job[j] \in Terminal)
       => /\ job'[j] \in Terminal
          /\ ~isActive[j] => ~isActive'[j]]_vars

\* ---------------------------------------------------- the result counts
\* the rule of reference: the first shape present decides
FirstPresentShape(jb) ==
  IF jb.count # None THEN The(jb.count)
  ELSE IF jb.nested # None THEN Len(The(jb.nested))
  ELSE IF jb.top # None THEN Len(The(jb.top))
  ELSE 0

C32_FirstTerminalResponseKeepsEntry ==
  [][\A j \in JobIds :
       (/\ Settled("ok") /\ lastEvent'.id = j
        /\ lastEvent'.payload \in {"completed", "failed"}
        /\ mounted[j] /\ job[j] = NULL
        /\ j \in Ids(allJobs))
       => /\ doneCalls'[j] = doneCalls[j] + 1
          /\ job'[j] = lastEvent'.payload
          /\ allJobs' = allJobs]_vars

\* the watcher shows the completed job after its first response, the
\* callback has run once and the entry is still pending with progress 10
C32_Witness ==
  /\ lastEvent.type = "ok" /\ lastEvent.inst /\ lastEvent.id = "j1"
  /\ lastEvent.payload = "completed"
  /\ latestOk["j1"].seq = 1
  /\ job["j1"] = "completed"
  /\ doneCalls["j1"] = 1
  /\ "j1" \in Ids(allJobs)
  /\ Summary(allJobs, "j1").status = "pending"
  /\ Summary(allJobs, "j1").progress = 10

\* ------------------------------------------------- progress and status
\* C33: in every state reached from an empty job list, no summary has
\* progress 100 together with status pending or processing.
C33_FullProgressIsTerminal ==
  \A i \in 1..Len(allJobs) :
    allJobs[i].progress = 100 => allJobs[i].status \notin NonTerminal

\* ------------------------------------------------------ removed for good
\* C34: a job the user removed is never inserted again while the page is
\* open: a response or a failure of a fetch for an id that is not in the
\* list, terminal or not, leaves the list without that id, and so does
\* every other step for an id the server already knows.
C34_RemovedStaysRemoved ==
  [][\A j \in JobIds :
       (/\ pageMounted /\ pageMounted'
        /\ backend[j] # "none"
        /\ j \notin Ids(allJobs))
       => /\ j \notin Ids(allJobs')
          /\ (lastEvent'.type \in {"ok", "fail"} /\ lastEvent'.id = j)
             => allJobs' = allJobs]_vars

\* a fetch that was in flight when j1 was removed has answered completed
\* and run the completion callback; the list is without j1
C34_Witness ==
  /\ pageMounted
  /\ lastEvent.type = "ok" /\ lastEvent.id = "j1"
  /\ lastEvent.payload = "completed"
  /\ doneCalls["j1"] > 0
  /\ latestOk["j1"].seq > 1
  /\ "j1" \notin Ids(allJobs)

\* ------------------------------------------------------ any stored text
\* C35: whatever the storage entry holds (nothing, text that does not
\* parse, a JSON array, or JSON that is not an array), after mount the job
\* list in memory is an array, and it is empty unless the entry held a
\* JSON array.
C35_MountedListIsArray ==
  [][(~pageMounted /\ pageMounted')
     => /\ IsArray(allJobs')
        /\ storage.kind # "array" => allJobs' = <<>>]_vars

\* ------------------------------------------------- mounting keeps the jobs
\* C36: mounting a page never loses persisted jobs: when the entry holds a
\* JSON array, the mount (load effect and save effect) leaves the entry as
\* it was, equal to the list it has loaded, so a reload at this point
\* hydrates the same list.
C36_MountKeepsEntry ==
  [][(~pageMounted /\ pageMounted' /\ storage.kind = "array")
     => /\ storage' = storage
        /\ LoadedJobs(storage') = allJobs']_vars

\* ------------------------------------------------ a change of the callback
\* C37: a render that changes only the callback (same interval, same
\* enabled) leaves the timer, its flag and what is due as they are and
\* invokes nothing; the calls in flight keep the callback they started
\* with; and every tick that invokes the action afterwards invokes the
\* callback of the latest render.
C37_CallbackChangeKeepsTimer ==
  [][/\ (/\ PollerStep("render")
         /\ poller.mounted
         /\ poller'.interval = poller.interval
         /\ poller'.enabled = poller.enabled
         /\ poller'.callback # poller.callback)
        => /\ poller'.timers = poller.timers
           /\ poller'.isActive = poller.isActive
           /\ poller'.queued = poller.queued
           /\ poller'.act = poller.act
           /\ poller'.invoked = poller.invoked
           /\ poller'.running = poller.running
           /\ poller'.savedCallback = poller'.callback
     /\ PollerStep("tick")
        => \A r \in poller'.running \ poller.running :
             r.callback = poller.callback]_vars

\* within one activation a call with the first callback is still in
\* flight while a tick has just invoked the callback of a later render
C37_Witness ==
  /\ poller.act = 1
  /\ poller.last.type = "tick"
  /\ \E r1, r2 \in poller.running :
       /\ r1.act = 1 /\ r2.act = 1
       /\ r1.n < r2.n
       /\ r2.n = poller.last.n
       /\ r1.callback # r2.callback
       /\ r2.callback = poller.callback

====
